---- MODULE Spec2Model ----
(***************************************************************************)
(* Model of noda.py: the per-proxy session agent (class ProxyManager) and  *)
(* the orchestrator (main) that launches one agent task per proxy and      *)
(* drops the tasks that complete.                                          *)
(*                                                                         *)
(* Python values: None and dicts are tagged records (PyNone, PyDict), a    *)
(* dict being a function from its keys.  An agent object is a record with  *)
(* the attributes __init__ sets.  pc[a] is the await at which agent a's    *)
(* task is suspended; main_pc is the await at which main is suspended.     *)
(* net[a] is the POSTs of agent a: those awaiting their answer, and the     *)
(* number of session calls sent so far.                                    *)
(***************************************************************************)
EXTENDS Integers, Sequences, FiniteSets, TLC

(* ---- bounds of the model ---- *)
\* longest proxy list fetched
MaxProxies == 3
\* length of the slice proxies[:100] of main, scaled down from 100
MaxActive == 2
\* failed pings in a row that are explored when one agent runs
MaxRetries == 61
\* failed pings in a row that are explored when several agents run
MaxFleetRetries == 1

(* ---- program constants ---- *)
NP_TOKEN == "WRITE_YOUR_NP_TOKEN_HERE"
RETRIES == 60
CONNECTION_STATES == [CONNECTED |-> 1, DISCONNECTED |-> 2, NONE_CONNECTION |-> 3]

VARIABLES proxies, tasks, mgr, pc, net, main_pc

vars == <<proxies, tasks, mgr, pc, net, main_pc>>

(* ---- Python values ---- *)
PyNone == [py |-> "None"]
PyDict(f) == [py |-> "dict", kv |-> f]
EmptyMap == [k \in {} |-> ""]
Truthy(v) == v.py = "dict" /\ DOMAIN v.kv # {}

(* ---- what the server and the transport can answer to one POST ---- *)
Codes == {-1, 0, 403, 500}
DataValues ==
  {PyNone, PyDict(EmptyMap), PyDict([uid |-> ""]), PyDict([name |-> "n"]),
   PyDict([uid |-> "abc"])}
\* the bodies answered to the SESSION call, whose data the agent reads
SessionBodies ==
  {PyNone, PyDict(EmptyMap)}
    \cup {PyDict([data |-> d]) : d \in DataValues}
    \cup {PyDict([code |-> c]) : c \in Codes}
    \cup {PyDict([code |-> c, data |-> d]) : c \in Codes, d \in DataValues}
\* the bodies answered to the PING call, of which the agent reads the code
PingBodies ==
  {PyNone, PyDict(EmptyMap), PyDict([data |-> PyDict(EmptyMap)])}
    \cup {PyDict([code |-> c]) : c \in Codes}
Answers(bodies) ==
  {[exc |-> "ClientError"], [exc |-> "TimeoutError"]}
    \cup {[exc |-> "none", json |-> b] : b \in bodies}
SessionOutcomes == Answers(SessionBodies)
PingOutcomes == Answers(PingBodies)

(* ---- the POSTs of an agent ---- *)
DOMAIN_API == {"SESSION", "PING"}
NoCalls == [inflight |-> <<>>, session_calls |-> 0]
\* session.post(url): the request leaves
Send(n, url) ==
  [n EXCEPT !.inflight = Append(@, url),
            !.session_calls = IF url = "SESSION" THEN @ + 1 ELSE @]
\* the oldest request is answered
Answer(n) == [n EXCEPT !.inflight = Tail(@)]
\* the request sent on the way to the await at which the task stops next
NextCall(n, next_pc) ==
  IF next_pc = "auth" THEN Send(n, "SESSION")
  ELSE IF next_pc = "ping" THEN Send(n, "PING")
  ELSE n

(* ---- class ProxyManager ---- *)
ProxyManager(np_token, proxy, uuid) ==
  [token_info |-> np_token, proxy |-> proxy, browser_id |-> uuid,
   account_info |-> PyDict(EmptyMap),
   status_connect |-> CONNECTION_STATES.NONE_CONNECTION, retries |-> 0]

\* the result of a call: the exception raised, or the value returned
Raise(e) == [exc |-> e]
Return(v) == [exc |-> "none", val |-> v]

valid_resp(resp) ==
  IF ~Truthy(resp) \/ "code" \notin DOMAIN resp.kv \/ resp.kv.code < 0
  THEN Raise("ValueError")
  ELSE Return(resp)

call_api(outcome) ==
  IF outcome.exc = "ClientError" THEN Raise("ValueError")
  ELSE IF outcome.exc # "none" THEN Raise(outcome.exc)
  ELSE valid_resp(outcome.json)

\* handle_logout that forgets to clear the credential
handle_logout_keeps_token(self) ==
  [self EXCEPT !.status_connect = CONNECTION_STATES.NONE_CONNECTION,
               !.account_info = PyDict(EmptyMap)]

handle_logout(self) ==
  [self EXCEPT !.token_info = "None",
               !.status_connect = CONNECTION_STATES.NONE_CONNECTION,
               !.account_info = PyDict(EmptyMap)]

\* handle_ping_fail that logs out once the counter reaches RETRIES
handle_ping_fail_ceiling(self, response) ==
  LET s1 == [self EXCEPT !.retries = @ + 1] IN
  IF Truthy(response) /\ "code" \in DOMAIN response.kv /\ response.kv.code = 403
  THEN handle_logout(s1)
  ELSE IF s1.retries < RETRIES
  THEN [s1 EXCEPT !.status_connect = CONNECTION_STATES.DISCONNECTED]
  ELSE handle_logout(s1)

\* handle_ping_fail that logs out once the counter has passed RETRIES
handle_ping_fail_above(self, response) ==
  LET s1 == [self EXCEPT !.retries = @ + 1] IN
  IF Truthy(response) /\ "code" \in DOMAIN response.kv /\ response.kv.code = 403
  THEN handle_logout(s1)
  ELSE IF s1.retries <= RETRIES
  THEN [s1 EXCEPT !.status_connect = CONNECTION_STATES.DISCONNECTED]
  ELSE handle_logout(s1)

handle_ping_fail(self, response) ==
  LET s1 == [self EXCEPT !.retries = @ + 1] IN
  IF Truthy(response) /\ "code" \in DOMAIN response.kv /\ response.kv.code = 403
  THEN handle_logout(s1)
  ELSE IF s1.retries < RETRIES
  THEN [s1 EXCEPT !.status_connect = CONNECTION_STATES.DISCONNECTED]
  ELSE [s1 EXCEPT !.status_connect = CONNECTION_STATES.DISCONNECTED]

\* ping that does not reset the counter on success
ping_no_reset(self, outcome) ==
  LET r == call_api(outcome) IN
  IF r.exc # "none" THEN handle_ping_fail(self, PyNone)
  ELSE IF r.val.kv.code = 0
  THEN [self EXCEPT !.status_connect = CONNECTION_STATES.CONNECTED]
  ELSE handle_ping_fail(self, r.val)

ping(self, outcome) ==
  LET r == call_api(outcome) IN
  IF r.exc # "none" THEN handle_ping_fail(self, PyNone)
  ELSE IF r.val.kv.code = 0
  THEN [self EXCEPT !.retries = 0,
                    !.status_connect = CONNECTION_STATES.CONNECTED]
  ELSE handle_ping_fail(self, r.val)

load_session_info(self) == PyDict(EmptyMap)

\* dict.get(key) is truthy
GetTruthy(d, key) == key \in DOMAIN d.kv /\ d.kv[key] # ""

\* render_profile_info that sends the session call again when it fails
render_profile_info_retry(self, outcome) ==
  LET np_session_info == load_session_info(self) IN
  IF Truthy(np_session_info)
  THEN [self |-> [self EXCEPT !.account_info = np_session_info], pc |-> "ping"]
  ELSE
    LET r == call_api(outcome) IN
    IF r.exc # "none" THEN [self |-> self, pc |-> "auth"]
    ELSE IF "data" \notin DOMAIN r.val.kv THEN [self |-> self, pc |-> "done"]
    ELSE
      LET s1 == [self EXCEPT !.account_info = r.val.kv.data] IN
      IF s1.account_info.py # "dict" THEN [self |-> s1, pc |-> "done"]
      ELSE IF GetTruthy(s1.account_info, "uid") THEN [self |-> s1, pc |-> "ping"]
      ELSE [self |-> handle_logout(s1), pc |-> "done"]

\* render_profile_info from its start to the first await it does not return
\* from: the agent object and the await the task is left at
render_profile_info(self, outcome) ==
  LET np_session_info == load_session_info(self) IN
  IF Truthy(np_session_info)
  THEN [self |-> [self EXCEPT !.account_info = np_session_info], pc |-> "ping"]
  ELSE
    LET r == call_api(outcome) IN
    IF r.exc # "none" THEN [self |-> self, pc |-> "done"]
    ELSE IF "data" \notin DOMAIN r.val.kv THEN [self |-> self, pc |-> "done"]
    ELSE
      LET s1 == [self EXCEPT !.account_info = r.val.kv.data] IN
      IF s1.account_info.py # "dict" THEN [self |-> s1, pc |-> "done"]
      ELSE IF GetTruthy(s1.account_info, "uid") THEN [self |-> s1, pc |-> "ping"]
      ELSE [self |-> handle_logout(s1), pc |-> "done"]

(* ---- main ---- *)
\* the proxy list taken whole, without the slice
active_proxies_all(p) == p

active_proxies(p) ==
  SubSeq(p, 1, IF Len(p) < MaxActive THEN Len(p) ELSE MaxActive)

\* the tasks of the agents whose run has ended
Done == {t \in DOMAIN pc : pc[t] \in {"done", "cancelled"}}

\* cap of the failure counter, for a finite state space
RetryBound == IF Len(proxies) <= 1 THEN MaxRetries ELSE MaxFleetRetries

Init ==
  /\ proxies \in {[i \in 1..n |-> i] : n \in 0..MaxProxies}
  /\ tasks = EmptyMap
  /\ mgr = EmptyMap
  /\ pc = EmptyMap
  /\ net = EmptyMap
  /\ main_pc = "start"

\* main, line 156-160: one task per entry of the slice, then the loop test
Launch ==
  /\ main_pc = "start"
  /\ LET ap == active_proxies(proxies) IN
       /\ tasks' = [i \in 1..Len(ap) |-> ap[i]]
       /\ mgr' = [i \in 1..Len(ap) |-> ProxyManager(NP_TOKEN, ap[i], i)]
       /\ pc' = [i \in 1..Len(ap) |-> "auth"]
       /\ net' = [i \in 1..Len(ap) |-> NextCall(NoCalls, "auth")]
       /\ main_pc' = IF Len(ap) = 0 THEN "exit" ELSE "wait"
  /\ UNCHANGED proxies

\* account_info kept in one dict that every agent object shares
AuthResponse_shared(a, outcome) ==
  /\ a \in DOMAIN pc
  /\ pc[a] = "auth"
  /\ LET res == render_profile_info(mgr[a], outcome) IN
       /\ mgr' = [b \in DOMAIN mgr |->
                    IF b = a THEN res.self
                    ELSE [mgr[b] EXCEPT !.account_info = res.self.account_info]]
       /\ pc' = [pc EXCEPT ![a] = res.pc]
       /\ net' = [net EXCEPT ![a] = NextCall(Answer(@), res.pc)]
  /\ UNCHANGED <<proxies, tasks, main_pc>>

\* the session call of render_profile_info answers
AuthResponse(a, outcome) ==
  /\ a \in DOMAIN pc
  /\ pc[a] = "auth"
  /\ LET res == render_profile_info(mgr[a], outcome) IN
       /\ mgr' = [mgr EXCEPT ![a] = res.self]
       /\ pc' = [pc EXCEPT ![a] = res.pc]
       /\ net' = [net EXCEPT ![a] = NextCall(Answer(@), res.pc)]
  /\ UNCHANGED <<proxies, tasks, main_pc>>

\* ping without its try: an exception of call_api ends start_ping
PingResponse_raises(a, outcome) ==
  /\ a \in DOMAIN pc
  /\ pc[a] = "ping"
  /\ net' = [net EXCEPT ![a] = Answer(@)]
  /\ IF call_api(outcome).exc # "none"
     THEN pc' = [pc EXCEPT ![a] = "done"] /\ mgr' = mgr
     ELSE /\ pc' = [pc EXCEPT ![a] = "sleep"]
          /\ LET self == ping(mgr[a], outcome) IN
               /\ self.retries <= RetryBound
               /\ mgr' = [mgr EXCEPT ![a] = self]
  /\ UNCHANGED <<proxies, tasks, main_pc>>

\* the ping call of ping answers; start_ping goes on to its sleep
PingResponse(a, outcome) ==
  /\ a \in DOMAIN pc
  /\ pc[a] = "ping"
  /\ pc' = [pc EXCEPT ![a] = "sleep"]
  /\ net' = [net EXCEPT ![a] = Answer(@)]
  /\ LET self == ping(mgr[a], outcome) IN
       /\ self.retries <= RetryBound
       /\ mgr' = [mgr EXCEPT ![a] = self]
  /\ UNCHANGED <<proxies, tasks, main_pc>>

\* start_ping that sends the next ping without awaiting the one before
PingSleepDone_overlap(a) ==
  /\ a \in DOMAIN pc
  /\ pc[a] \in {"sleep", "ping"}
  /\ pc' = [pc EXCEPT ![a] = "ping"]
  /\ net' = [net EXCEPT ![a] = NextCall(@, "ping")]
  /\ UNCHANGED <<proxies, tasks, mgr, main_pc>>

\* asyncio.sleep(PING_INTERVAL) of start_ping ends and the next ping is sent
PingSleepDone(a) ==
  /\ a \in DOMAIN pc
  /\ pc[a] = "sleep"
  /\ pc' = [pc EXCEPT ![a] = "ping"]
  /\ net' = [net EXCEPT ![a] = NextCall(@, "ping")]
  /\ UNCHANGED <<proxies, tasks, mgr, main_pc>>

\* the for loop tests the result the wrong way round and pops nothing
WaitAndPop_none ==
  /\ main_pc = "wait"
  /\ Done \cap DOMAIN tasks # {}
  /\ main_pc' = "sleep"
  /\ UNCHANGED <<proxies, tasks, mgr, pc, net>>

\* the for loop runs over every task instead of the completed ones
WaitAndPop_all ==
  /\ main_pc = "wait"
  /\ Done \cap DOMAIN tasks # {}
  /\ tasks' = EmptyMap
  /\ main_pc' = "sleep"
  /\ UNCHANGED <<proxies, mgr, pc, net>>

\* asyncio.wait returns and the for loop pops every completed task
WaitAndPop ==
  /\ main_pc = "wait"
  /\ Done \cap DOMAIN tasks # {}
  /\ tasks' = [t \in DOMAIN tasks \ Done |-> tasks[t]]
  /\ main_pc' = "sleep"
  /\ UNCHANGED <<proxies, mgr, pc, net>>

\* main that leaves its loop after the first round
MainSleepDone_once ==
  /\ main_pc = "sleep"
  /\ main_pc' = "exit"
  /\ UNCHANGED <<proxies, tasks, mgr, pc, net>>

\* asyncio.sleep(3) of main ends, then the loop test
MainSleepDone ==
  /\ main_pc = "sleep"
  /\ main_pc' = IF DOMAIN tasks = {} THEN "exit" ELSE "wait"
  /\ UNCHANGED <<proxies, tasks, mgr, pc, net>>

\* the except of ping takes the CancelledError for a failed ping and the
\* loop of start_ping goes on
Interrupt_counts_failure ==
  /\ main_pc \in {"wait", "sleep"}
  /\ main_pc' = "interrupted"
  /\ pc' = [t \in DOMAIN pc |->
              IF pc[t] = "auth" THEN "cancelled"
              ELSE IF pc[t] = "ping" THEN "sleep"
              ELSE IF pc[t] = "sleep" THEN "done"
              ELSE pc[t]]
  /\ mgr' = [t \in DOMAIN mgr |->
               IF pc[t] = "ping" THEN handle_ping_fail(mgr[t], PyNone)
               ELSE mgr[t]]
  /\ net' = [t \in DOMAIN net |-> [net[t] EXCEPT !.inflight = <<>>]]
  /\ UNCHANGED <<proxies, tasks>>

\* KeyboardInterrupt: asyncio.run cancels main and every pending task;
\* start_ping catches the CancelledError and returns, the session call
\* lets it through; the POSTs awaited are abandoned
Interrupt ==
  /\ main_pc \in {"wait", "sleep"}
  /\ main_pc' = "interrupted"
  /\ pc' = [t \in DOMAIN pc |->
              IF pc[t] = "auth" THEN "cancelled"
              ELSE IF pc[t] \in {"ping", "sleep"} THEN "done"
              ELSE pc[t]]
  /\ net' = [t \in DOMAIN net |-> [net[t] EXCEPT !.inflight = <<>>]]
  /\ UNCHANGED <<proxies, tasks, mgr>>

AgentStep(a) ==
  \/ \E outcome \in SessionOutcomes : AuthResponse(a, outcome)
  \/ \E outcome \in PingOutcomes : PingResponse(a, outcome)
  \/ PingSleepDone(a)

Next ==
  \/ Launch
  \/ \E a \in 1..MaxActive : \E outcome \in SessionOutcomes : AuthResponse(a, outcome)
  \/ \E a \in 1..MaxActive : \E outcome \in PingOutcomes : PingResponse(a, outcome)
  \/ \E a \in 1..MaxActive : PingSleepDone(a)
  \/ WaitAndPop
  \/ MainSleepDone
  \/ Interrupt

Spec == Init /\ [][Next]_vars

\* the event loop runs every task that can run; a call answers or times out
FairSpec ==
  /\ Spec
  /\ WF_vars(Launch)
  /\ WF_vars(WaitAndPop)
  /\ WF_vars(MainSleepDone)
  /\ \A a \in 1..MaxActive : WF_vars(AgentStep(a))

TypeOK ==
  /\ main_pc \in {"start", "wait", "sleep", "exit", "interrupted"}
  /\ DOMAIN mgr = DOMAIN pc
  /\ DOMAIN net = DOMAIN pc
  /\ \A a \in DOMAIN pc : pc[a] \in {"auth", "ping", "sleep", "done", "cancelled"}

(* ---- the claims ---- *)
uid_set(self) ==
  self.account_info.py = "dict" /\ GetTruthy(self.account_info, "uid")
account_empty(self) == self.account_info = PyDict(EmptyMap)
Running == DOMAIN pc \ Done
Interrupted == main_pc = "interrupted"

\* the outcomes of a call that carry a given status code
HasCode(outcome, c) ==
  /\ outcome.exc = "none"
  /\ Truthy(outcome.json)
  /\ "code" \in DOMAIN outcome.json.kv
  /\ outcome.json.kv.code = c
\* the answers with the success code, with the forbidden code, and the rest:
\* transport error, timeout, invalid shape, or a code that is neither 0 nor 403
Successes == {o \in PingOutcomes : HasCode(o, 0)}
Forbidden == {o \in PingOutcomes : HasCode(o, 403)}
GenericFailures == (PingOutcomes \ Successes) \ Forbidden

\* C1: in every reachable state, an agent whose connection state is
\* Connected has a non-empty uid in its account info and a non-empty
\* credential.
C1_ConnectedHasUidAndCredential ==
  \A a \in DOMAIN mgr :
    mgr[a].status_connect = CONNECTION_STATES.CONNECTED
      => uid_set(mgr[a]) /\ mgr[a].token_info # "None"

\* C2: once Logout has run on an agent in its heartbeat loop, the loop
\* exits, the run returns and the orchestrator eventually removes the agent
\* from its active set (or the program is interrupted before it does).
C2_LogoutRetiresAgent ==
  \A a \in 1..MaxActive :
    (a \in DOMAIN mgr /\ mgr[a].token_info = "None")
      ~> (a \notin DOMAIN tasks \/ Interrupted)

\* C3: no agent has a heartbeat request in flight while its credential is
\* cleared.
C3_NoPingWithClearedCredential ==
  \A a \in DOMAIN mgr : pc[a] = "ping" => mgr[a].token_info # "None"

\* C4: a heartbeat answered with code 403 leaves the agent with its
\* credential cleared, its account info empty and its state NotConnected,
\* whatever the failure count and the state were.
C4_ForbiddenLogsOut ==
  [][\A a \in DOMAIN pc : \A o \in Forbidden :
       (pc[a] = "ping" /\ pc'[a] = "sleep" /\ PingResponse(a, o))
         => /\ mgr'[a].token_info = "None"
            /\ account_empty(mgr'[a])
            /\ mgr'[a].status_connect = CONNECTION_STATES.NONE_CONNECTION]_vars
\* an agent logged out by a heartbeat after earlier failed heartbeats
C4_Witness ==
  \E a \in DOMAIN pc :
    /\ pc[a] = "sleep"
    /\ mgr[a].token_info = "None"
    /\ account_empty(mgr[a])
    /\ mgr[a].status_connect = CONNECTION_STATES.NONE_CONNECTION
    /\ mgr[a].retries >= 3

\* C5: a heartbeat answered with code 0 sets the failure count to 0 and the
\* state to Connected whatever they were, and no other step of an agent
\* decreases its failure count.
C5_SuccessResetsOnly ==
  [][\A a \in DOMAIN pc :
       /\ \A o \in Successes :
            (pc[a] = "ping" /\ pc'[a] = "sleep" /\ PingResponse(a, o))
              => /\ mgr'[a].retries = 0
                 /\ mgr'[a].status_connect = CONNECTION_STATES.CONNECTED
       /\ mgr'[a].retries < mgr[a].retries
            => \E o \in Successes : PingResponse(a, o)]_vars
\* an agent whose heartbeat has just succeeded after a logout
C5_Witness ==
  \E a \in DOMAIN pc :
    /\ pc[a] = "sleep"
    /\ mgr[a].retries = 0
    /\ mgr[a].status_connect = CONNECTION_STATES.CONNECTED
    /\ mgr[a].token_info = "None"

\* C6: a heartbeat that fails by transport error, timeout, invalid
\* response shape or a code other than 0 and 403 adds exactly 1 to the
\* failure count, sets the state to Disconnected and leaves credential,
\* account info and client id unchanged.
C6_GenericFailureFrame ==
  [][\A a \in DOMAIN pc : \A o \in GenericFailures :
       (pc[a] = "ping" /\ pc'[a] = "sleep" /\ PingResponse(a, o))
         => /\ mgr'[a].retries = mgr[a].retries + 1
            /\ mgr'[a].status_connect = CONNECTION_STATES.DISCONNECTED
            /\ mgr'[a].token_info = mgr[a].token_info
            /\ mgr'[a].account_info = mgr[a].account_info
            /\ mgr'[a].browser_id = mgr[a].browser_id]_vars
\* an authenticated agent after one failed heartbeat
C6_Witness ==
  \E a \in DOMAIN pc :
    /\ pc[a] = "sleep"
    /\ mgr[a].retries = 1
    /\ mgr[a].status_connect = CONNECTION_STATES.DISCONNECTED
    /\ mgr[a].token_info = NP_TOKEN
    /\ uid_set(mgr[a])

\* C7: at no time are more agent runs outstanding than the length of the
\* slice, and the agents launched are one per entry of the first MaxActive
\* entries of the proxy list.
C7_BoundedFleet ==
  /\ Cardinality(Running) <= MaxActive
  /\ Cardinality(DOMAIN tasks) <= MaxActive
  /\ main_pc # "start"
       => /\ DOMAIN mgr = 1..(IF Len(proxies) < MaxActive THEN Len(proxies) ELSE MaxActive)
          /\ \A a \in DOMAIN mgr : mgr[a].proxy = proxies[a]
  /\ \A t \in DOMAIN tasks : t \in DOMAIN mgr /\ tasks[t] = proxies[t]
\* a proxy list longer than the slice has been launched
C7_Witness ==
  /\ main_pc # "start"
  /\ Len(proxies) > MaxActive
  /\ Cardinality(Running) = MaxActive

\* the active set only shrinks, no agent is launched after the initial
\* launch, and an agent's run that has ended stays ended
OnlyShrinks ==
  [][main_pc # "start"
       => /\ DOMAIN tasks' \subseteq DOMAIN tasks
          /\ DOMAIN mgr' = DOMAIN mgr
          /\ Done \subseteq {t \in DOMAIN pc' : pc'[t] \in {"done", "cancelled"}}]_vars

\* C8 as stated: once an agent's run has completed the orchestrator
\* removes it from the active set, and it is never in the active set again:
\* the active set only shrinks and no agent is launched after the initial
\* launch.
C8_CompletedIsRemoved ==
  /\ \A a \in 1..MaxActive : (a \in Done /\ ~Interrupted) ~> (a \notin DOMAIN tasks)
  /\ OnlyShrinks

\* C8 as amended: unless the program is interrupted first, once an agent's
\* run has completed the orchestrator removes it from the active set; it is
\* never in the active set again: the active set only shrinks and no agent
\* is launched after the initial launch.
C8_CompletedIsRemovedUnlessInterrupted ==
  /\ \A a \in 1..MaxActive :
       (a \in Done /\ ~Interrupted) ~> (a \notin DOMAIN tasks \/ Interrupted)
  /\ OnlyShrinks
\* a completed agent has been removed while another agent is still active
C8_Witness ==
  /\ Done \ DOMAIN tasks # {}
  /\ DOMAIN tasks # {}
  /\ ~Interrupted

\* C9: when some runs complete and the others keep running forever, the
\* active set eventually equals the set of agents still running and stays
\* equal to it; a pop removes completed agents only and changes no agent.
C9_ActiveSetConverges ==
  /\ (<>[](Running # {})) => <>[](DOMAIN tasks = Running)
  /\ [][main_pc # "start"
          => /\ DOMAIN tasks \ DOMAIN tasks' \subseteq Done
             /\ DOMAIN tasks' # DOMAIN tasks => mgr' = mgr /\ pc' = pc]_vars
\* the active set is exactly the running agents, after a completed one left
C9_Witness ==
  /\ main_pc = "wait"
  /\ Done # {}
  /\ Running # {}
  /\ DOMAIN tasks = Running

\* C10: in every reachable state, an agent whose connection state is
\* NotConnected has an empty account info (no key in it).
C10_NotConnectedHasNoAccount ==
  \A a \in DOMAIN mgr :
    mgr[a].status_connect = CONNECTION_STATES.NONE_CONNECTION
      => ~Truthy(mgr[a].account_info)

\* the data of a session answer that has passed valid_resp and carries a
\* data field that is a dict with a non-empty uid
CarriesUid(outcome) ==
  /\ call_api(outcome).exc = "none"
  /\ "data" \in DOMAIN outcome.json.kv
  /\ outcome.json.kv.data.py = "dict"
  /\ GetTruthy(outcome.json.kv.data, "uid")
AuthSuccesses == {o \in SessionOutcomes : HasCode(o, 0) /\ CarriesUid(o)}

\* C11: when the session call of a fresh agent is answered with code 0 and
\* a data carrying uid u, that step leaves the agent Connected with
\* account_info.uid = u.
C11_AuthSuccessConnects ==
  [][\A a \in DOMAIN pc : \A o \in AuthSuccesses :
       (pc[a] = "auth" /\ AuthResponse(a, o))
         => /\ mgr'[a].status_connect = CONNECTION_STATES.CONNECTED
            /\ uid_set(mgr'[a])
            /\ mgr'[a].account_info.kv.uid = o.json.kv.data.kv.uid]_vars

\* the session answers that are a transport error (the network layer
\* raises) or a protocol error (no body, no code, negative code)
AuthErrors ==
  {o \in SessionOutcomes :
     \/ o.exc # "none"
     \/ ~Truthy(o.json)
     \/ "code" \notin DOMAIN o.json.kv
     \/ o.json.kv.code < 0}
\* an agent's run has ended at the session call with the agent untouched
EndedAtAuth(a) ==
  /\ a \in DOMAIN pc
  /\ pc[a] = "done"
  /\ mgr[a] = ProxyManager(NP_TOKEN, proxies[a], a)
\* an error at the session call ends the run with the agent untouched; an
\* agent sends one session call in all and an ended run sends nothing
AuthErrorEndsRun ==
  [][\A a \in DOMAIN pc :
       /\ \A o \in AuthErrors :
            (pc[a] = "auth" /\ AuthResponse(a, o))
              => pc'[a] = "done" /\ mgr'[a] = mgr[a]
       /\ net'[a].session_calls = 1
       /\ pc[a] \in {"done", "cancelled"} => pc'[a] = pc[a] /\ net'[a] = net[a]]_vars

\* C12 as stated: an error at the session call ends the run with no retry
\* and no heartbeat, and the orchestrator then drops the agent.
C12_AuthErrorDropsAgent ==
  /\ AuthErrorEndsRun
  /\ \A a \in 1..MaxActive :
       (EndedAtAuth(a) /\ ~Interrupted) ~> (a \notin DOMAIN tasks)

\* C12 as amended: an error at the session call ends the run with no retry
\* and no heartbeat, and the orchestrator then drops the agent unless the
\* program is interrupted first.
C12_AuthErrorDropsAgentUnlessInterrupted ==
  /\ AuthErrorEndsRun
  /\ \A a \in 1..MaxActive :
       (EndedAtAuth(a) /\ ~Interrupted) ~> (a \notin DOMAIN tasks \/ Interrupted)
\* an agent whose session call failed has been dropped
C12_Witness ==
  \E a \in DOMAIN pc :
    EndedAtAuth(a) /\ a \notin DOMAIN tasks /\ ~Interrupted

\* C13: a heartbeat that succeeds or fails other than by a 403 answer
\* leaves the agent in its heartbeat loop, the next heartbeat is sent after
\* the sleep, and the run of an agent in the loop ends only by cancellation.
C13_HeartbeatErrorsAbsorbed ==
  /\ [][\A a \in DOMAIN pc :
          /\ \A o \in PingOutcomes \ Forbidden :
               (pc[a] = "ping" /\ pc'[a] # "ping" /\ PingResponse(a, o))
                 => pc'[a] = "sleep"
          /\ (pc[a] \in {"ping", "sleep"} /\ pc'[a] \in {"done", "cancelled"})
               => ~Interrupted /\ Interrupted']_vars
  /\ \A a \in 1..MaxActive :
       (a \in DOMAIN pc /\ pc[a] = "sleep")
         ~> ((a \in DOMAIN pc /\ pc[a] = "ping") \/ Interrupted)
\* an agent sending its next heartbeat after several failed ones
C13_Witness ==
  \E a \in DOMAIN pc :
    /\ pc[a] = "ping"
    /\ net[a].inflight = <<"PING">>
    /\ mgr[a].retries >= 3
    /\ mgr[a].status_connect = CONNECTION_STATES.DISCONNECTED
    /\ mgr[a].token_info = NP_TOKEN

\* C14: a failed heartbeat that is not a 403 answer never logs the agent
\* out, whether the failure count is below, at or above RETRIES: the agent
\* is Disconnected, keeps credential and account info, and stays in the loop.
C14_CeilingNeverLogsOut ==
  [][\A a \in DOMAIN pc : \A o \in GenericFailures :
       (pc[a] = "ping" /\ pc'[a] # "ping" /\ PingResponse(a, o))
         => /\ mgr'[a].status_connect = CONNECTION_STATES.DISCONNECTED
            /\ mgr'[a].token_info = mgr[a].token_info
            /\ mgr'[a].account_info = mgr[a].account_info
            /\ pc'[a] = "sleep"
            /\ a \in DOMAIN tasks']_vars
\* an authenticated agent whose failure count has passed RETRIES and that
\* is still in its loop
C14_Witness ==
  \E a \in DOMAIN pc :
    /\ pc[a] = "sleep"
    /\ mgr[a].retries > RETRIES
    /\ mgr[a].status_connect = CONNECTION_STATES.DISCONNECTED
    /\ mgr[a].token_info = NP_TOKEN
    /\ uid_set(mgr[a])

\* C15: an agent enters its heartbeat loop only on a session answer with
\* code 0 that carries a uid; on an answer with any other code, with or
\* without a uid, the run ends and no heartbeat is sent.
C15_OnlySuccessStartsHeartbeat ==
  [][\A a \in DOMAIN pc :
       /\ (pc[a] = "auth" /\ pc'[a] = "ping")
            => \E o \in AuthSuccesses : AuthResponse(a, o)
       /\ \A o \in SessionOutcomes :
            (pc[a] = "auth" /\ ~HasCode(o, 0) /\ AuthResponse(a, o))
              => pc'[a] = "done" /\ net'[a].inflight = <<>>]_vars

\* the agent is logged out: handle_logout has run on it last
LoggedOut(self) ==
  /\ self.token_info = "None"
  /\ account_empty(self)
  /\ self.status_connect = CONNECTION_STATES.NONE_CONNECTION
\* the session answers that are valid (a body with a code that is not
\* negative) and carry no uid
NoUidAnswers ==
  {o \in SessionOutcomes :
     /\ o.exc = "none"
     /\ Truthy(o.json)
     /\ "code" \in DOMAIN o.json.kv
     /\ o.json.kv.code >= 0
     /\ ~CarriesUid(o)}

\* C16: on a valid session answer without a uid the agent logs out
\* (credential cleared, account info empty, NotConnected), sends no
\* heartbeat, and its run ends.
C16_NoUidLogsOut ==
  [][\A a \in DOMAIN pc : \A o \in NoUidAnswers :
       (pc[a] = "auth" /\ AuthResponse(a, o))
         => /\ LoggedOut(mgr'[a])
            /\ pc'[a] = "done"
            /\ net'[a].inflight = <<>>]_vars

\* C17: main leaves its loop exactly when the dict of tasks is empty: it
\* has not left it while a run is not completed or a task is not popped,
\* an empty proxy list ends it at once, the loop test on an empty dict ends
\* it, and once every run has completed main ends (or is interrupted).
C17_LoopEndsWhenEmpty ==
  /\ [](main_pc = "exit" => DOMAIN tasks = {} /\ Running = {})
  /\ [][/\ (main_pc = "start" /\ main_pc' # "start")
             => (main_pc' = "exit" <=> Len(proxies) = 0)
        /\ (main_pc = "sleep" /\ main_pc' \notin {"sleep", "interrupted"})
             => (main_pc' = "exit" <=> DOMAIN tasks = {})
        /\ main_pc = "exit" => main_pc' = "exit"]_vars
  /\ (main_pc # "start" /\ Running = {}) ~> (main_pc = "exit" \/ Interrupted)
\* main has ended by itself after dropping the agents it launched
C17_Witness ==
  /\ main_pc = "exit"
  /\ DOMAIN pc # {}
  /\ DOMAIN tasks = {}

\* C18: the cancellation of an agent that is in its sleep or waits for the
\* answer to a heartbeat ends its run and changes none of its fields: it is
\* not counted as a failed heartbeat, the heartbeat awaited is abandoned and
\* no heartbeat is sent afterwards.
C18_CancellationIsNotAFailure ==
  /\ [][(~Interrupted /\ Interrupted')
          => \A a \in DOMAIN pc :
               pc[a] \in {"ping", "sleep"}
                 => /\ pc'[a] = "done"
                    /\ mgr'[a] = mgr[a]
                    /\ net'[a].inflight = <<>>]_vars
  /\ [][Interrupted => pc' = pc /\ mgr' = mgr /\ net' = net]_vars
\* an agent cancelled while it waited for the answer to a heartbeat sent
\* after a failed one
C18_Witness ==
  /\ Interrupted
  /\ \E a \in DOMAIN pc :
       /\ pc[a] = "done"
       /\ uid_set(mgr[a])
       /\ mgr[a].retries = 1
       /\ mgr[a].status_connect = CONNECTION_STATES.DISCONNECTED

\* C19: an agent never has more than one POST awaiting its answer; the
\* session call is its first and only one of its kind and is answered
\* before the first heartbeat is sent, and a heartbeat is sent only when no
\* POST of the agent awaits its answer.
C19_CallsAreSerialized ==
  /\ [](\A a \in DOMAIN pc :
          /\ Len(net[a].inflight) <= 1
          /\ net[a].session_calls = 1
          /\ pc[a] = "auth" <=> net[a].inflight = <<"SESSION">>
          /\ pc[a] = "ping" <=> net[a].inflight = <<"PING">>)
  /\ [][\A a \in DOMAIN pc :
          Len(net'[a].inflight) > Len(net[a].inflight)
            => net[a].inflight = <<>> /\ net'[a].inflight = <<"PING">>]_vars
\* two agents each await an answer, one to its session call and one to a
\* heartbeat sent after an earlier heartbeat was answered
C19_Witness ==
  \E a, b \in DOMAIN pc :
    /\ net[a].inflight = <<"SESSION">>
    /\ net[b].inflight = <<"PING">>
    /\ mgr[b].status_connect # CONNECTION_STATES.NONE_CONNECTION

\* C20: a step of one agent (an answer to its session call or to a
\* heartbeat, with or without logout, the end of its sleep, the end of its
\* run) changes no other agent, a step of main changes no agent, and the
\* browser_id of an agent is the one given at construction, its own alone.
C20_AgentsAreIsolated ==
  /\ [][\A a \in DOMAIN pc :
          /\ (pc'[a] # pc[a] /\ AgentStep(a))
               => \A b \in DOMAIN pc \ {a} :
                    mgr'[b] = mgr[b] /\ pc'[b] = pc[b] /\ net'[b] = net[b]
          /\ main_pc' # main_pc => mgr' = mgr
          /\ mgr'[a].browser_id = mgr[a].browser_id]_vars
  /\ [](\A a \in DOMAIN mgr :
          /\ mgr[a].browser_id = a
          /\ mgr[a].proxy = proxies[a]
          /\ \A b \in DOMAIN mgr \ {a} : mgr[b].browser_id # mgr[a].browser_id)
\* one agent has been through its session call and a failed heartbeat
\* while another is as constructed
C20_Witness ==
  \E a, b \in DOMAIN pc :
    /\ a # b
    /\ pc[a] = "sleep"
    /\ mgr[a].retries = 1
    /\ uid_set(mgr[a])
    /\ pc[b] = "auth"
    /\ mgr[b] = ProxyManager(NP_TOKEN, proxies[b], b)
====
